---- MODULE Spec2Model ----
(***************************************************************************)
(* Candidate filtering of the Wordle solver: class Wordle (the Words-backed *)
(* variant) on top of FrequentWords.  A word is a sequence of one-character *)
(* strings; positions are 0-based as in the source and are shifted by one   *)
(* where a TLA+ sequence is indexed.                                        *)
(***************************************************************************)
EXTENDS Naturals, Sequences, FiniteSets

VARIABLES
    _word_size,        \* Wordle::_word_size
    each_word_size,    \* FrequentWords::_word_size
    _word_count_list,  \* FrequentWords::_word_count_list: <<word, count>> pairs
    last_str,          \* argument str of the last observed call of update
    last_status,       \* argument status of the last observed call of update
    ret,               \* how the last observed call of update ended
    progress,          \* "fresh": no call has returned a count yet,
                       \* "once": one has, "again": two or more have
    dict,              \* _word_count_list as the constructor left it
    survivors,         \* entries of dict that pass every accepted pair alone
    banned,            \* letters marked 'b' throughout one accepted guess
    banned_earlier,    \* a letter was in banned when the last call that
                       \* returned a count began
    target,            \* the hidden word of the session (<<>>: none)
    genuine,           \* every call so far carried the feedback of target
    supplied,          \* the list handed to the constructor of FrequentWords
    twin,              \* _word_count_list of a second store built from the
                       \* same words with other counts, given the same calls
    twin_ret,          \* how the last call of update given to two stores
                       \* ended: <<on the store, on twin or on _words>>
    history,           \* the logged calls of update: <<str, status, outcome>>
    out,               \* what the last accessor call returned
    _words,            \* Wordle::_words of the Wordle that keeps a plain
                       \* vector of words, built from the same words
    _display_limit,    \* WordleClient::_display_limit
    auto_mode,         \* the constructor argument auto_mode of WordleClient
    pc,                \* where the client stands: "start", in the reads of
                       \* get_word (the word: "word", the answer y/n:
                       \* "answer", the word once more: "again"), in
                       \* get_status ("status"), returned ("done"), ended
                       \* by std::terminate ("terminated"); "none": no client
    input,             \* the local input of get_word while it runs
    client_word,       \* input of run() / word of auto_run()
    client_status,     \* status of run() / auto_run(): the last one entered
    printed,           \* what the last print_update printed
    said,              \* the closing message of the client
    rounds,            \* the statuses entered in auto_run()
    configuredArgs,    \* ArgParser::configuredArgs
    argKeys,           \* ArgParser::argKeys
    parsedArgs,        \* ArgParser::parsedArgs: pairs of argument and value
    appPath,           \* ArgParser::appPath
    isOnlyHelpString,  \* ArgParser::isOnlyHelpString
    parse_called,      \* parse() has been called
    parser_err,        \* the exception of the last call of addArgument,
                       \* addArgumentWithDefault or parse
    retrieved          \* how the last call of retrieve() ended, and whether
                       \* parse() had been called before it

vars == <<_word_size, each_word_size, _word_count_list, last_str, last_status,
          ret, progress, dict, survivors, banned, banned_earlier, target,
          genuine, supplied, twin, twin_ret, history, out, _words,
          _display_limit, auto_mode, pc, input, client_word, client_status,
          printed, said, rounds, configuredArgs, argKeys, parsedArgs, appPath,
          isOnlyHelpString, parse_called, parser_err, retrieved>>

\* the variables of WordleClient
clientVars == <<_display_limit, auto_mode, pc, input, client_word,
               client_status, printed, said, rounds>>

\* the variables of the parser
parserVars == <<configuredArgs, argKeys, parsedArgs, appPath,
                isOnlyHelpString, parse_called, parser_err, retrieved>>

----------------------------------------------------------------------------
(* Bounds of the explored inputs.                                           *)

\* word sizes of the single observed calls and of the games
MaxWordSize == 4
\* word sizes of the sessions of many calls
MaxSessionSize == 3
\* distance of the sampled dictionary words
SampleStride == 4
\* word sizes of the stores whose two size arguments are chosen separately
MaxBuildSize == 3
\* word sizes of the stores whose operations are called one by one
MaxStoreSize == 3
\* word sizes of the pairs of stores that differ in their counts only
MaxTwinSize == 2
\* longest words of the stores that are given a call twice
MaxRepeatSize == 3
\* word sizes of the sessions on the plain vector and the ranked store
MaxPlainSize == 3
\* word sizes of the games of the client
MaxClientSize == 2
\* display limits of the client, from 0
MaxDisplayLimit == 2
\* statuses entered in one automatic game
MaxRounds == 12
\* arguments after the application path on a command line
MaxArgs == 2

\* the letters of the guesses
Letters == {"a", "b"}
\* the letters of the dictionary words, in dictionary order
LetterSeq == <<"a", "b", "c">>

ALLOWED_STATUS_CHARS == {"b", "y", "g"}

\* the character '\0' that update writes over processed positions
NUL == "NUL"

NoError == [type |-> "none", msg |-> <<>>]

\* an exception is in flight
Thrown(st) == st.err.type # "none"

AllWords(L, n) == [1..n -> L]
AllStatus(n) == [1..n -> ALLOWED_STATUS_CHARS]

----------------------------------------------------------------------------
(* std::string helpers                                                      *)

\* word.find(c) != std::string::npos
Find(word, c) == \E k \in 1..Len(word) : word[k] = c

\* std::count(word.begin(), word.end(), c)
Count(word, c) == Cardinality({k \in 1..Len(word) : word[k] = c})

\* the check written with find_first_of: some character is an allowed one
SomeAllowed(status) == \E k \in 1..Len(status) : status[k] \in ALLOWED_STATUS_CHARS

\* status.find_first_not_of(ALLOWED_STATUS_CHARS) == std::string::npos
OnlyAllowed(status) == \A k \in 1..Len(status) : status[k] \in ALLOWED_STATUS_CHARS

----------------------------------------------------------------------------
(* FrequentWords.  A store value is [list, err]: the entry list and the     *)
(* exception in flight, if any; once an exception is in flight no further   *)
(* statement of update runs.                                                *)

\* the entries of a list
Entries(list) == {list[k] : k \in 1..Len(list)}

\* removal by overwriting a removed entry with the last one and popping it:
\* the entries that are left lose their order
RECURSIVE filter_swap_pop(_, _)
filter_swap_pop(list, removed) ==
    IF list = <<>> THEN <<>>
    ELSE IF Head(list) \notin removed
    THEN <<Head(list)>> \o filter_swap_pop(Tail(list), removed)
    ELSE IF Len(list) = 1 THEN <<>>
    ELSE filter_swap_pop(<<list[Len(list)]>> \o SubSeq(list, 2, Len(list) - 1),
                         removed)

\* std::remove_if + erase: the entries outside `removed`, the set of entries
\* for which func is true, in their order
filter(list, removed) == SelectSeq(list, LAMBDA entry : entry \notin removed)

\* a constructor that drops the longer words only
FrequentWords_no_longer(words, word_size) ==
    filter(words, {entry \in Entries(words) : Len(entry[1]) > word_size})

\* the constructor drops the entries whose word has another length
FrequentWords(words, word_size) ==
    filter(words, {entry \in Entries(words) : Len(entry[1]) # word_size})

\* Words::validate_index: pos < get_each_word_size()
validate_index(pos) == pos < each_word_size

IndexError(pos) ==
    [type |-> "runtime_error",
     msg  |-> <<"Index [", pos, "] must be less than word size [",
                each_word_size, "]">>]

\* exists(char) with the loop that erases while it iterates: the entry after
\* an erased one is never examined
RECURSIVE erase_skipping(_, _)
erase_skipping(list, c) ==
    IF list = <<>> THEN <<>>
    ELSE IF Find(Head(list)[1], c)
    THEN <<Head(list)>> \o erase_skipping(Tail(list), c)
    ELSE IF Len(list) = 1 THEN <<>>
    ELSE <<list[2]>> \o erase_skipping(SubSeq(list, 3, Len(list)), c)

exists_skipping(st, c) ==
    IF Thrown(st) THEN st
    ELSE [st EXCEPT !.list = erase_skipping(@, c)]

exists(st, c) ==
    IF Thrown(st) THEN st
    ELSE [st EXCEPT !.list =
            filter(@, {entry \in Entries(@) : ~Find(entry[1], c)})]

\* exists(char, pos) that looks for c anywhere in the word
exists_pos_anywhere(st, c, pos) ==
    IF Thrown(st) THEN st
    ELSE IF ~validate_index(pos) THEN [st EXCEPT !.err = IndexError(pos)]
    ELSE [st EXCEPT !.list =
            filter(@, {entry \in Entries(@) : ~Find(entry[1], c)})]

\* exists(char, pos) with the comparison turned round: == for !=
exists_pos_inverted(st, c, pos) ==
    IF Thrown(st) THEN st
    ELSE IF ~validate_index(pos) THEN [st EXCEPT !.err = IndexError(pos)]
    ELSE [st EXCEPT !.list =
            filter(@, {entry \in Entries(@) : entry[1][pos + 1] = c})]

exists_pos(st, c, pos) ==
    IF Thrown(st) THEN st
    ELSE IF ~validate_index(pos) THEN [st EXCEPT !.err = IndexError(pos)]
    ELSE [st EXCEPT !.list =
            filter(@, {entry \in Entries(@) : entry[1][pos + 1] # c})]

\* does_not_exist(char) that tests find(c) == 0: only a leading c counts
does_not_exist_leading(st, c) ==
    IF Thrown(st) THEN st
    ELSE [st EXCEPT !.list =
            filter(@, {entry \in Entries(@) : entry[1][1] = c})]

does_not_exist(st, c) ==
    IF Thrown(st) THEN st
    ELSE [st EXCEPT !.list =
            filter(@, {entry \in Entries(@) : Find(entry[1], c)})]

\* does_not_exist(char, pos) with std::remove_if and no erase: the list keeps
\* its length and its tail keeps the old entries
does_not_exist_pos_no_erase(st, c, pos) ==
    IF Thrown(st) THEN st
    ELSE IF ~validate_index(pos) THEN [st EXCEPT !.err = IndexError(pos)]
    ELSE LET kept == filter(st.list,
                            {entry \in Entries(st.list) : entry[1][pos + 1] = c})
         IN  [st EXCEPT !.list =
                 kept \o SubSeq(st.list, Len(kept) + 1, Len(st.list))]

does_not_exist_pos(st, c, pos) ==
    IF Thrown(st) THEN st
    ELSE IF ~validate_index(pos) THEN [st EXCEPT !.err = IndexError(pos)]
    ELSE [st EXCEPT !.list =
            filter(@, {entry \in Entries(@) : entry[1][pos + 1] = c})]

\* remove_if_ge_n that compares entry.second, the frequency, with n
remove_if_rank_ge_n(st, c, n) ==
    IF Thrown(st) THEN st
    ELSE [st EXCEPT !.list =
            filter(@, {entry \in Entries(@) : entry[2] >= n})]

\* remove_if_ge_n that compares with > instead of >=
remove_if_gt_n(st, c, n) ==
    IF Thrown(st) THEN st
    ELSE [st EXCEPT !.list =
            filter(@, {entry \in Entries(@) : Count(entry[1], c) > n})]

remove_if_ge_n(st, c, n) ==
    IF Thrown(st) THEN st
    ELSE [st EXCEPT !.list =
            filter(@, {entry \in Entries(@) : Count(entry[1], c) >= n})]

\* get_n_words that hands out every word, as strings() does
get_n_words_all(list, n) == [k \in 1..Len(list) |-> list[k][1]]

\* FrequentWords::get_n_words: the words of the first std::min(n, size())
\* entries
get_n_words(list, n) ==
    [k \in 1..(IF n < Len(list) THEN n ELSE Len(list)) |-> list[k][1]]

\* FrequentWords::size
size(list) == Len(list)

\* FrequentWords::strings
strings(list) == [k \in 1..Len(list) |-> list[k][1]]

----------------------------------------------------------------------------
(* Wordle::update                                                           *)

\* the inner loop that only counts the marks and applies no positional filter
RECURSIVE count_marks_only(_, _, _, _, _, _, _)
count_marks_only(str, status, c, ii, st, y_count, g_count) ==
    IF ii >= _word_size
    THEN [st |-> st, y_count |-> y_count, g_count |-> g_count]
    ELSE IF str[ii + 1] # c
    THEN count_marks_only(str, status, c, ii + 1, st, y_count, g_count)
    ELSE IF status[ii + 1] = "y"
    THEN count_marks_only(str, status, c, ii + 1, st, y_count + 1, g_count)
    ELSE IF status[ii + 1] = "g"
    THEN count_marks_only(str, status, c, ii + 1, st, y_count, g_count + 1)
    ELSE count_marks_only(str, status, c, ii + 1, st, y_count, g_count)

\* the inner loop over ii of the 'b' branch: positional filters for the
\* other occurrences of c, and the counts of its 'y' and 'g' marks
RECURSIVE count_marks(_, _, _, _, _, _, _)
count_marks(str, status, c, ii, st, y_count, g_count) ==
    IF ii >= _word_size
    THEN [st |-> st, y_count |-> y_count, g_count |-> g_count]
    ELSE IF str[ii + 1] # c
    THEN count_marks(str, status, c, ii + 1, st, y_count, g_count)
    ELSE IF status[ii + 1] = "y"
    THEN count_marks(str, status, c, ii + 1,
                     does_not_exist_pos(st, c, ii), y_count + 1, g_count)
    ELSE IF status[ii + 1] = "g"
    THEN count_marks(str, status, c, ii + 1,
                     exists_pos(st, c, ii), y_count, g_count + 1)
    ELSE count_marks(str, status, c, ii + 1, st, y_count, g_count)

\* the loop over itr: every position holding c becomes '\0' in str and status
mark_processed(str, other, c) ==
    [k \in 1..Len(str) |-> IF str[k] = c THEN NUL ELSE other[k]]

\* the 'b' branch without the statement for a letter that has no 'y' and no
\* 'g' mark
absent_branch_capped(str, status, c, i, st) ==
    LET s1 == does_not_exist_pos(st, c, i)
        m  == count_marks(str, status, c, 0, s1, 0, 0)
        s3 == IF m.y_count > 0
              THEN remove_if_ge_n(m.st, c, m.y_count + 1) ELSE m.st
    IN  IF m.g_count > 0 THEN remove_if_ge_n(s3, c, m.g_count + 1) ELSE s3

\* the 'b' branch for the letter c found at position i
absent_branch(str, status, c, i, st) ==
    LET s1 == does_not_exist_pos(st, c, i)
        m  == count_marks(str, status, c, 0, s1, 0, 0)
        s2 == IF m.y_count = 0 /\ m.g_count = 0
              THEN does_not_exist(m.st, c) ELSE m.st
        s3 == IF m.y_count > 0
              THEN remove_if_ge_n(s2, c, m.y_count + 1) ELSE s2
    IN  IF m.g_count > 0 THEN remove_if_ge_n(s3, c, m.g_count + 1) ELSE s3

\* the loop over i
RECURSIVE update_loop(_, _, _, _)
update_loop(str, status, i, st) ==
    IF i >= _word_size \/ Thrown(st) THEN st
    ELSE LET c == str[i + 1]
             s == status[i + 1]
         IN  IF s = "b"
             THEN update_loop(mark_processed(str, str, c),
                              mark_processed(str, status, c), i + 1,
                              absent_branch(str, status, c, i, st))
             ELSE IF s = "y"
             THEN update_loop(str, status, i + 1,
                              does_not_exist_pos(exists(st, c), c, i))
             ELSE IF s = "g"
             THEN update_loop(str, status, i + 1, exists_pos(st, c, i))
             ELSE update_loop(str, status, i + 1, st)

LengthError(str, status) ==
    [type |-> "invalid_argument",
     msg  |-> <<"Invalid number of characters in [", str, "], and/or [", status,
                "], they must contain exactly [", _word_size, "] characters">>]

StatusError(status) ==
    [type |-> "invalid_argument",
     msg  |-> <<"Invalid status characters in [", status,
                "], status characters must be from: [", "byg", "]">>]

\* update with the two checks in the other order: the status characters first
update_status_first(list, str, status) ==
    IF ~OnlyAllowed(status)
    THEN [list |-> list, err |-> StatusError(status)]
    ELSE IF ~(Len(str) = _word_size /\ Len(status) = _word_size)
    THEN [list |-> list, err |-> LengthError(str, status)]
    ELSE update_loop(str, status, 0, [list |-> list, err |-> NoError])

\* update on the entry list `list`: the list it leaves and the exception thrown
update(list, str, status) ==
    IF ~(Len(str) = _word_size /\ Len(status) = _word_size)
    THEN [list |-> list, err |-> LengthError(str, status)]
    ELSE IF ~OnlyAllowed(status)
    THEN [list |-> list, err |-> StatusError(status)]
    ELSE update_loop(str, status, 0, [list |-> list, err |-> NoError])

----------------------------------------------------------------------------
(* The Wordle that keeps its words in a plain std::vector<std::string>: a   *)
(* filter empties the words it removes and clean_up drops the empty ones.   *)
(* A store in flight is [list, err] with list the vector _words.            *)

\* the constructor: the words whose size is word_size, in their order
Wordle(word_size, words) ==
    SelectSeq(words, LAMBDA word : Len(word) = word_size)

\* std::remove_if + erase of the empty strings
clean_up(list) == SelectSeq(list, LAMBDA word : word # <<>>)

\* word.erase() on every word for which func is true (the words of
\* `removed`), then clean_up
plain_filter(list, removed) ==
    clean_up([k \in 1..Len(list) |->
                 IF list[k] \in removed THEN <<>> ELSE list[k]])

plain_validate_index(index) == index < _word_size

PlainIndexError(index) ==
    [type |-> "runtime_error",
     msg  |-> <<"char index: [", index, "] must be less than word size: [",
                _word_size, "]\n">>]

\* exists(char): the words without c are removed
plain_exists(st, c) ==
    IF Thrown(st) THEN st
    ELSE [st EXCEPT !.list =
            plain_filter(@, {word \in Entries(@) : ~Find(word, c)})]

\* exists(char, index): the words with another character at index are removed
plain_exists_pos(st, c, index) ==
    IF Thrown(st) THEN st
    ELSE IF ~plain_validate_index(index)
    THEN [st EXCEPT !.err = PlainIndexError(index)]
    ELSE [st EXCEPT !.list =
            plain_filter(@, {word \in Entries(@) : word[index + 1] # c})]

\* remove(char, index)
remove_pos(st, c, index) ==
    IF Thrown(st) THEN st
    ELSE IF ~plain_validate_index(index)
    THEN [st EXCEPT !.err = PlainIndexError(index)]
    ELSE [st EXCEPT !.list =
            plain_filter(@, {word \in Entries(@) : word[index + 1] = c})]

\* remove(char)
remove(st, c) ==
    IF Thrown(st) THEN st
    ELSE [st EXCEPT !.list =
            plain_filter(@, {word \in Entries(@) : Find(word, c)})]

\* remove_n that compares with > instead of >=
remove_n_gt(st, c, n) ==
    IF Thrown(st) THEN st
    ELSE [st EXCEPT !.list =
            plain_filter(@, {word \in Entries(@) : Count(word, c) > n})]

remove_n(st, c, n) ==
    IF Thrown(st) THEN st
    ELSE [st EXCEPT !.list =
            plain_filter(@, {word \in Entries(@) : Count(word, c) >= n})]

\* the inner loop over ii of the 'b' branch
RECURSIVE plain_count_marks(_, _, _, _, _, _, _)
plain_count_marks(str, status, c, ii, st, y_count, g_count) ==
    IF ii >= _word_size
    THEN [st |-> st, y_count |-> y_count, g_count |-> g_count]
    ELSE IF str[ii + 1] # c
    THEN plain_count_marks(str, status, c, ii + 1, st, y_count, g_count)
    ELSE IF status[ii + 1] = "y"
    THEN plain_count_marks(str, status, c, ii + 1,
                           remove_pos(st, c, ii), y_count + 1, g_count)
    ELSE IF status[ii + 1] = "g"
    THEN plain_count_marks(str, status, c, ii + 1,
                           plain_exists_pos(st, c, ii), y_count, g_count + 1)
    ELSE plain_count_marks(str, status, c, ii + 1, st, y_count, g_count)

\* the 'b' branch for the letter c found at position i
plain_absent_branch(str, status, c, i, st) ==
    LET s1 == remove_pos(st, c, i)
        m  == plain_count_marks(str, status, c, 0, s1, 0, 0)
        s2 == IF m.y_count = 0 /\ m.g_count = 0 THEN remove(m.st, c) ELSE m.st
        s3 == IF m.y_count > 0 THEN remove_n(s2, c, m.y_count + 1) ELSE s2
    IN  IF m.g_count > 0 THEN remove_n(s3, c, m.g_count + 1) ELSE s3

\* the loop over i
RECURSIVE plain_update_loop(_, _, _, _)
plain_update_loop(str, status, i, st) ==
    IF i >= _word_size \/ Thrown(st) THEN st
    ELSE LET c == str[i + 1]
             s == status[i + 1]
         IN  IF s = "b"
             THEN plain_update_loop(mark_processed(str, str, c),
                                    mark_processed(str, status, c), i + 1,
                                    plain_absent_branch(str, status, c, i, st))
             ELSE IF s = "y"
             THEN plain_update_loop(str, status, i + 1,
                                    remove_pos(plain_exists(st, c), c, i))
             ELSE IF s = "g"
             THEN plain_update_loop(str, status, i + 1,
                                    plain_exists_pos(st, c, i))
             ELSE plain_update_loop(str, status, i + 1, st)

PlainStatusError(status) ==
    [type |-> "invalid_argument",
     msg  |-> <<"Invalid status characters in [", status,
                "], status characters must be from: [", "byg", "]\n">>]

PlainLengthError(str, status) ==
    [type |-> "invalid_argument",
     msg  |-> <<"Invalid number of characters in [", str, "], and [", status,
                "], they must contain exactly [", _word_size, "] characters\n">>]

\* update on the vector `list`: the status characters are checked first, and
\* the vector is cleaned up once more before its size is returned
plain_update(list, str, status) ==
    IF ~OnlyAllowed(status)
    THEN [list |-> list, err |-> PlainStatusError(status)]
    ELSE IF Len(str) # _word_size \/ Len(status) # _word_size
    THEN [list |-> list, err |-> PlainLengthError(str, status)]
    ELSE LET r == plain_update_loop(str, status, 0,
                                    [list |-> list, err |-> NoError])
         IN  IF Thrown(r) THEN r ELSE [r EXCEPT !.list = clean_up(@)]

----------------------------------------------------------------------------
(* The feedback of the game for a guess against the hidden word: correct    *)
(* marks first, then present marks left to right while unmatched            *)
(* occurrences of the letter remain, the rest absent.                       *)

Unmatched(guess, t, c) ==
    Cardinality({k \in 1..Len(t) : t[k] = c /\ guess[k] # c})

EarlierMisses(guess, t, k) ==
    Cardinality({j \in 1..(k - 1) : guess[j] = guess[k] /\ t[j] # guess[j]})

Score(guess, t) ==
    [k \in 1..Len(guess) |->
        IF t[k] = guess[k] THEN "g"
        ELSE IF EarlierMisses(guess, t, k) < Unmatched(guess, t, guess[k])
        THEN "y" ELSE "b"]

----------------------------------------------------------------------------
(* Sessions                                                                 *)

\* b to the power n
RECURSIVE Pow(_, _)
Pow(b, n) == IF n = 0 THEN 1 ELSE b * Pow(b, n - 1)

\* the k-th word (k = 0, 1, ...) of length n over the letter sequence L
WordAt(L, n, k) ==
    [j \in 1..n |-> L[((k \div Pow(Len(L), n - j)) % Len(L)) + 1]]

\* every word of length n over L, each once, with decreasing counts
FullList(L, n) ==
    [k \in 1..Pow(Len(L), n) |-> <<WordAt(L, n, k - 1), Pow(Len(L), n) - k + 1>>]

Reverse(list) == [k \in 1..Len(list) |-> list[Len(list) - k + 1]]

\* lists handed to the constructor: the full list over L framed by a longer
\* and a shorter word, and its reverse with the first word supplied twice
Supplied(L, n) ==
    LET full == FullList(L, n)
        long == <<WordAt(L, n + 1, 0), 9>>
        short == <<WordAt(L, n - 1, 0), 1>>
    IN  { <<long>> \o full \o <<short>>,
          Reverse(full) \o <<short, full[1]>> }

\* every SampleStride-th word of the full list over LetterSeq
Sampled(n) ==
    LET full == FullList(LetterSeq, n)
    IN  [k \in 1..(((Len(full) - 1) \div SampleStride) + 1) |->
            full[(k - 1) * SampleStride + 1]]

\* letters of str whose every occurrence in str is marked 'b'
AllAbsent(str, status) ==
    {c \in {str[k] : k \in 1..Len(str)} :
        \A k \in 1..Len(str) : str[k] = c => status[k] = "b"}

\* the entries of list that are left when update runs on the entry alone
Alone(list, str, status) ==
    SelectSeq(list, LAMBDA entry : update(<<entry>>, str, status).list # <<>>)

NoCall == [type |-> "none", msg |-> <<>>, size |-> 0]

\* no accessor has been called since the list last changed
NoOutput == [op |-> "none", n |-> 0, words |-> <<>>, count |-> 0]

\* the same words in the same order with other counts: the position in the
\* list instead of the frequency
Reranked(words) == [k \in 1..Len(words) |-> <<words[k][1], k>>]

\* Wordle(word_size, std::make_shared<FrequentWords>(words, each_size)): the
\* two sizes are separate constructor arguments
InitData(word_size, each_size, words, t, gen) ==
    /\ _word_size = word_size
    /\ each_word_size = each_size
    /\ _word_count_list = FrequentWords(words, each_size)
    /\ dict = FrequentWords(words, each_size)
    /\ survivors = FrequentWords(words, each_size)
    /\ progress = "fresh"
    /\ last_str = <<>>
    /\ last_status = <<>>
    /\ ret = NoCall
    /\ banned = {}
    /\ banned_earlier = FALSE
    /\ target = t
    /\ genuine = gen
    /\ supplied = words
    /\ twin = FrequentWords(Reranked(words), each_size)
    /\ twin_ret = <<NoCall, NoCall>>
    /\ history = <<>>
    /\ out = NoOutput
    /\ _words = Wordle(word_size, strings(words))

\* no client holds the store
NoClient ==
    /\ _display_limit = 0
    /\ auto_mode = FALSE
    /\ pc = "none"
    /\ input = <<>>
    /\ client_word = <<>>
    /\ client_status = <<>>
    /\ printed = [kind |-> "none", count |-> 0, words |-> <<>>]
    /\ said = "none"
    /\ rounds = 0

\* std::nullopt / no exception of the parser, no call of retrieve yet
nullopt == [has |-> FALSE, str |-> <<>>, num |-> 0]

NoRetrieve == [type |-> "none", msg |-> <<>>, opt |-> nullopt, parsed |-> FALSE]

\* no parser is in use
NoParser ==
    /\ configuredArgs = <<>>
    /\ argKeys = {}
    /\ parsedArgs = {}
    /\ appPath = <<>>
    /\ isOnlyHelpString = FALSE
    /\ parse_called = FALSE
    /\ parser_err = NoError
    /\ retrieved = NoRetrieve

\* the store on its own
InitStore(word_size, each_size, words, t, gen) ==
    /\ InitData(word_size, each_size, words, t, gen)
    /\ NoClient
    /\ NoParser

\* both sizes are n
InitWith(n, words, t, gen) == InitStore(n, n, words, t, gen)

\* one call wordle.update(str, status) on the store; observed: its arguments
\* and its outcome are recorded
CallStore(str, status, observed) ==
    LET r == update(_word_count_list, str, status)
        ok == ~Thrown(r)
    IN  /\ _word_count_list' = r.list
        /\ progress' = IF ~ok THEN progress
                       ELSE IF progress = "fresh" THEN "once" ELSE "again"
        /\ last_str' = IF observed THEN str ELSE last_str
        /\ last_status' = IF observed THEN status ELSE last_status
        /\ ret' = IF ~observed THEN ret
                  ELSE IF ok
                  THEN [type |-> "ok", msg |-> <<>>, size |-> size(r.list)]
                  ELSE [type |-> r.err.type, msg |-> r.err.msg, size |-> 0]
        /\ survivors' = IF ok THEN Alone(survivors, str, status) ELSE survivors
        /\ banned_earlier' = IF ok THEN banned # {} ELSE banned_earlier
        /\ banned' = IF ok THEN banned \cup AllAbsent(str, status) ELSE banned
        /\ genuine' = (genuine /\ ok /\ status = Score(str, target))
        /\ UNCHANGED <<_word_size, each_word_size, dict, target>>

\* the call on the store alone
Call(str, status, observed) ==
    /\ CallStore(str, status, observed)
    /\ UNCHANGED <<supplied, twin, twin_ret, history, out, _words, clientVars, parserVars>>

\* calls that fail a check of update: a wrong length, a foreign status letter
BadInputs ==
    LET w == [k \in 1..(_word_size + 1) |-> "a"]
        s == [k \in 1..(_word_size + 1) |-> "g"]
        x == [k \in 1.._word_size |-> "x"]
    IN  { <<w, s>>, <<SubSeq(w, 1, _word_size), s>>,
          <<w, SubSeq(s, 1, _word_size)>>, <<SubSeq(w, 1, _word_size), x>>,
          <<w, x>> }

\* a session: any number of calls, valid or not
Update ==
    \E str \in AllWords(Letters, _word_size), status \in AllStatus(_word_size) :
        Call(str, status, FALSE)

UpdateRejected ==
    \E bad \in BadInputs : Call(bad[1], bad[2], FALSE)

Init ==
    \E n \in 1..MaxSessionSize :
        \E words \in Supplied(<<"a", "b">>, n) \cup {Sampled(n)} :
            InitWith(n, words, <<>>, FALSE)

Next == Update \/ UpdateRejected

Spec == Init /\ [][Next]_vars

\* the first call on a freshly built store, observed
FirstUpdate ==
    /\ ret.type = "none"
    /\ \E str \in AllWords(Letters, _word_size), status \in AllStatus(_word_size) :
           Call(str, status, TRUE)

InitCall ==
    \E n \in 1..MaxWordSize :
        \E words \in Supplied(LetterSeq, n) : InitWith(n, words, <<>>, FALSE)

FirstUpdateRejected ==
    /\ ret.type = "none"
    /\ \E bad \in BadInputs : Call(bad[1], bad[2], TRUE)

NextCall == FirstUpdate \/ FirstUpdateRejected

SpecCall == InitCall /\ [][NextCall]_vars

\* a session against a hidden word of the dictionary: every status is the
\* feedback of the game
Play ==
    \E str \in AllWords(Letters, _word_size) :
        Call(str, Score(str, target), TRUE)

InitPlay ==
    \E n \in 1..MaxWordSize :
      \E words \in Supplied(<<"a", "b">>, n) \cup {Sampled(n)} :
        \E k \in 1..Len(FrequentWords(words, n)) :
            InitWith(n, words, FrequentWords(words, n)[k][1], TRUE)

NextPlay == Play

SpecPlay == InitPlay /\ [][NextPlay]_vars

\* more calls that fail a check of update: a short guess, an empty status,
\* both empty, wrong lengths together with foreign status letters, and a
\* status of the right length that ends in a foreign letter
MoreBadInputs ==
    LET w == [k \in 1.._word_size |-> "a"]
        g == [k \in 1.._word_size |-> "g"]
        x == [k \in 1..(_word_size + 1) |-> "x"]
    IN  { <<SubSeq(w, 1, _word_size - 1), g>>, <<w, <<>>>>, <<<<>>, <<>>>>,
          <<w \o <<"b">>, x>>, <<w, x>>,
          <<w, SubSeq(g, 1, _word_size - 1) \o <<"x">>>> }

FirstUpdateMalformed ==
    /\ ret.type = "none"
    /\ \E bad \in MoreBadInputs : Call(bad[1], bad[2], TRUE)

\* the first call on a store built by Wordle(word_size, word_ptr) from any
\* word size and any FrequentWords
InitBuild ==
    \E word_size \in 1..MaxBuildSize, each_size \in 1..MaxBuildSize :
        \E words \in Supplied(LetterSeq, each_size) :
            InitStore(word_size, each_size, words, <<>>, FALSE)

NextBuild == FirstUpdate \/ FirstUpdateRejected \/ FirstUpdateMalformed

SpecBuild == InitBuild /\ [][NextBuild]_vars

\* how a call of update that left r ended: the count returned or the
\* exception thrown
Outcome(r) ==
    IF Thrown(r) THEN [type |-> r.err.type, msg |-> r.err.msg, size |-> 0]
    ELSE [type |-> "ok", msg |-> <<>>, size |-> size(r.list)]

\* the same call on the store and on twin
TwinCall(str, status) ==
    LET r  == update(_word_count_list, str, status)
        rt == update(twin, str, status)
    IN  /\ CallStore(str, status, FALSE)
        /\ twin' = rt.list
        /\ twin_ret' = <<Outcome(r), Outcome(rt)>>
        /\ UNCHANGED <<supplied, history, out, _words, clientVars, parserVars>>

TwinUpdate ==
    \E str \in AllWords(Letters, _word_size), status \in AllStatus(_word_size) :
        TwinCall(str, status)

TwinUpdateRejected ==
    \E bad \in BadInputs : TwinCall(bad[1], bad[2])

\* sessions on two stores of any two sizes
InitTwin ==
    \E word_size \in 1..MaxTwinSize, each_size \in 1..MaxTwinSize :
        \E words \in Supplied(<<"a", "b">>, each_size) \cup {Sampled(each_size)} :
            InitStore(word_size, each_size, words, <<>>, FALSE)

NextTwin == TwinUpdate \/ TwinUpdateRejected

SpecTwin == InitTwin /\ [][NextTwin]_vars

\* a call on the store whose arguments are logged when it returns a count
LogCall(str, status) ==
    /\ CallStore(str, status, TRUE)
    /\ history' = IF ret'.type = "ok" THEN Append(history, <<str, status>>)
                  ELSE history
    /\ UNCHANGED <<supplied, twin, twin_ret, out, _words, clientVars, parserVars>>

\* the words of the test: {"abc",1}, {"bcd",1}, {"pqr",1}, {"abf",1}, {"abr",1}
ScenarioWords ==
    << <<<<"a", "b", "c">>, 1>>, <<<<"b", "c", "d">>, 1>>,
       <<<<"p", "q", "r">>, 1>>, <<<<"a", "b", "f">>, 1>>,
       <<<<"a", "b", "r">>, 1>> >>

\* the guesses of the scenarios
ScenarioGuesses ==
    { <<"a", "b", "f">>, <<"a", "b", "c">>, <<"a", "p", "p">> }

\* sessions of up to two counted calls on the words of the test and on the
\* 3-letter words over a, p, x
ScenarioUpdate ==
    /\ progress # "again"
    /\ \E str \in ScenarioGuesses, status \in AllStatus(_word_size) :
           LogCall(str, status)

ScenarioRejected ==
    /\ progress # "again"
    /\ \E bad \in BadInputs : LogCall(bad[1], bad[2])

InitScenario ==
    \E words \in {ScenarioWords, FullList(<<"a", "p", "x">>, 3)} :
        InitWith(3, words, <<>>, FALSE)

NextScenario == ScenarioUpdate \/ ScenarioRejected

SpecScenario == InitScenario /\ [][NextScenario]_vars

----------------------------------------------------------------------------
(* The operations of Words called one by one on a FrequentWords             *)

\* the store with no exception in flight
Store == [list |-> _word_count_list, err |-> NoError]

\* a result of type std::vector<std::string>
Returned(op, n, words) == [op |-> op, n |-> n, words |-> words, count |-> 0]

\* a filter has run and left the store r
Filtered(r, pos) ==
    /\ _word_count_list' = r.list
    /\ out' = IF Thrown(r) THEN Returned("throw", pos, r.err.msg) ELSE NoOutput
    /\ UNCHANGED <<_word_size, each_word_size, last_str, last_status, ret,
                   progress, dict, survivors, banned, banned_earlier, target,
                   genuine, supplied, twin, twin_ret, history, _words,
                   clientVars, parserVars>>

\* a const member function has returned res
Accessed(res) ==
    /\ out' = res
    /\ UNCHANGED <<_word_size, each_word_size, _word_count_list, last_str,
                   last_status, ret, progress, dict, survivors, banned,
                   banned_earlier, target, genuine, supplied, twin, twin_ret,
                   history, _words, clientVars, parserVars>>

Exists == \E c \in Letters : Filtered(exists(Store, c), 0)

ExistsPos ==
    \E c \in Letters, pos \in 0..each_word_size :
        Filtered(exists_pos(Store, c, pos), pos)

DoesNotExist == \E c \in Letters : Filtered(does_not_exist(Store, c), 0)

DoesNotExistPos ==
    \E c \in Letters, pos \in 0..each_word_size :
        Filtered(does_not_exist_pos(Store, c, pos), pos)

RemoveIfGeN ==
    \E c \in Letters, n \in 0..(each_word_size + 1) :
        Filtered(remove_if_ge_n(Store, c, n), 0)

GetNWords ==
    \E n \in 0..(Len(dict) + 1) :
        Accessed(Returned("get_n_words", n, get_n_words(_word_count_list, n)))

Size ==
    Accessed([op |-> "size", n |-> 0, words |-> <<>>,
              count |-> size(_word_count_list)])

GetWords == Accessed(Returned("get_words", 0, strings(_word_count_list)))

InitWords ==
    \E n \in 1..MaxStoreSize :
        \E words \in Supplied(<<"a", "b">>, n) \cup {Sampled(n)} :
            InitWith(n, words, <<>>, FALSE)

NextWords ==
    \/ Exists
    \/ ExistsPos
    \/ DoesNotExist
    \/ DoesNotExistPos
    \/ RemoveIfGeN
    \/ GetNWords
    \/ Size
    \/ GetWords

SpecWords == InitWords /\ [][NextWords]_vars

----------------------------------------------------------------------------
(* A call of update given again: after at most one earlier call the store   *)
(* takes one logged call, and then the same call once more.                 *)

\* a call of update before the observed one
Prepare ==
    /\ progress = "fresh"
    /\ ret.type = "none"
    /\ \E str \in AllWords(Letters, _word_size), status \in AllStatus(_word_size) :
           Call(str, status, FALSE)

\* the logged call of a valid guess and status
LoggedUpdate ==
    /\ ret.type = "none"
    /\ \E str \in AllWords(Letters, _word_size), status \in AllStatus(_word_size) :
           LogCall(str, status)

\* wordle.update(str, status) once more with the arguments of the logged call
RepeatUpdate ==
    /\ ret.type = "ok"
    /\ Len(history) = 1
    /\ LogCall(last_str, last_status)

InitRepeat ==
    \E n \in 1..MaxRepeatSize :
        \E words \in Supplied(<<"a", "b">>, n) \cup {Sampled(n)} :
            InitWith(n, words, <<>>, FALSE)

NextRepeat == Prepare \/ LoggedUpdate \/ RepeatUpdate

SpecRepeat == InitRepeat /\ [][NextRepeat]_vars

----------------------------------------------------------------------------
(* Sessions on the plain vector and on the ranked store together            *)

\* the same call on the store and on the plain vector
PlainCall(str, status) ==
    LET r  == update(_word_count_list, str, status)
        rp == plain_update(_words, str, status)
    IN  /\ CallStore(str, status, FALSE)
        /\ _words' = rp.list
        /\ twin_ret' = <<Outcome(r), Outcome(rp)>>
        /\ UNCHANGED <<supplied, twin, history, out, clientVars, parserVars>>

PlainUpdate ==
    \E str \in AllWords(Letters, _word_size), status \in AllStatus(_word_size) :
        PlainCall(str, status)

\* both stores built from the same words in the same order with one size
InitPlain ==
    \E n \in 1..MaxPlainSize :
        \E words \in Supplied(<<"a", "b">>, n) \cup {Sampled(n)} :
            InitWith(n, words, <<>>, FALSE)

NextPlain == PlainUpdate

SpecPlain == InitPlain /\ [][NextPlain]_vars

----------------------------------------------------------------------------
(* WordleClient: the constructor runs the whole game, run() in manual mode  *)
(* and auto_run() in automatic mode.  The client blocks in get_word and in  *)
(* get_status only; an action is the code between two of these reads.      *)

\* found that is content with one 'g'
found_some(status) == \E k \in 1..Len(status) : status[k] = "g"

\* found: every character of the status is 'g'
found(status) == \A k \in 1..Len(status) : status[k] = "g"

\* nothing printed by print_update yet
NoPrint == [kind |-> "none", count |-> 0, words |-> <<>>]

\* the assertion of print_update failed: the exception leaves a noexcept
\* function and the program is terminated
AssertFailed ==
    [kind |-> "There are no entries to print!", count |-> 0, words |-> <<>>]

\* print_update(single_word) on the entry list `list`: what it prints
print_update(list, single_word) ==
    LET words == get_n_words(list, _display_limit)
    IN  IF words = <<>> THEN AssertFailed
        ELSE IF Len(words) = 1
        THEN [kind |-> "only", count |-> 0, words |-> <<words[1]>>]
        ELSE IF single_word # <<>>
        THEN [kind |-> "try", count |-> size(list), words |-> <<single_word>>]
        ELSE [kind |-> "list", count |-> size(list),
              words |-> get_n_words(list, _display_limit)]

\* the suggestion that takes the last candidate
first_word_back(list) == list[Len(list)][1]

\* _wordle.get_n_words(1u).front()
first_word(list) == get_n_words(list, 1)[1]

\* the variables of the store and of its observers
storeVars == <<_word_size, each_word_size, _word_count_list, last_str,
               last_status, ret, progress, dict, survivors, banned,
               banned_earlier, target, genuine, supplied, twin, twin_ret,
               history, out, _words>>

\* run() up to the first get_word
RunBegin ==
    /\ pc = "start"
    /\ ~auto_mode
    /\ printed' = print_update(_word_count_list, <<>>)
    /\ pc' = IF printed' = AssertFailed THEN "terminated" ELSE "word"
    /\ UNCHANGED <<storeVars, _display_limit, auto_mode, input, client_word,
                   client_status, said, rounds, parserVars>>

\* get_word, its first read: a word of letters of the word size; a word of
\* status letters is questioned, any other word is returned
GetWord ==
    /\ pc = "word"
    /\ \E first \in AllWords(Letters, _word_size) :
        IF OnlyAllowed(first)
        THEN /\ input' = first
             /\ pc' = "answer"
             /\ UNCHANGED client_word
        ELSE /\ input' = <<>>
             /\ client_word' = first
             /\ pc' = "status"
    /\ UNCHANGED <<storeVars, _display_limit, auto_mode, client_status,
                   printed, said, rounds, parserVars>>

\* get_word, its second read: on the answer "y" another word is read, on
\* "n" the word of status letters is returned
GetAnswer ==
    /\ pc = "answer"
    /\ \E ans \in {"y", "n"} :
        IF ans = "y"
        THEN /\ pc' = "again"
             /\ UNCHANGED <<input, client_word>>
        ELSE /\ input' = <<>>
             /\ client_word' = input
             /\ pc' = "status"
    /\ UNCHANGED <<storeVars, _display_limit, auto_mode, client_status,
                   printed, said, rounds, parserVars>>

\* get_word, its third read: the word read is returned as it is
GetWordAgain ==
    /\ pc = "again"
    /\ \E second \in AllWords(Letters, _word_size) :
        /\ input' = <<>>
        /\ client_word' = second
        /\ pc' = "status"
    /\ UNCHANGED <<storeVars, _display_limit, auto_mode, client_status,
                   printed, said, rounds, parserVars>>

\* the message of run() after the update that left no word
run_unable_silent(list) == "none"

run_unable(list) ==
    IF strings(list) = <<>> THEN "unable" ELSE "none"

\* run() from get_status to the next get_word or to its return
GetStatus ==
    /\ pc = "status"
    /\ ~auto_mode
    /\ \E status \in AllStatus(_word_size) :
        /\ client_status' = status
        /\ IF found(status)
           THEN /\ said' = "congratulations"
                /\ pc' = "done"
                /\ UNCHANGED <<storeVars, printed>>
           ELSE /\ CallStore(client_word, status, TRUE)
                /\ UNCHANGED <<supplied, twin, twin_ret, history, out, _words>>
                /\ said' = run_unable(_word_count_list')
                /\ IF strings(_word_count_list') = <<>>
                   THEN /\ pc' = "done"
                        /\ UNCHANGED printed
                   ELSE /\ printed' = print_update(_word_count_list', <<>>)
                        /\ pc' = IF printed' = AssertFailed THEN "terminated"
                                 ELSE "word"
    /\ UNCHANGED <<_display_limit, auto_mode, input, client_word, rounds,
                   parserVars>>

\* auto_run() from the test of its loop to get_status or to its return: what
\* it suggests, prints and says on the entry list `list`
auto_loop(list) ==
    IF size(list) # 0
    THEN LET shown == print_update(list, first_word(list))
         IN  [word |-> first_word(list), printed |-> shown, said |-> "none",
              pc |-> IF shown = AssertFailed THEN "terminated" ELSE "status"]
    ELSE [word |-> <<>>, printed |-> NoPrint,
          said |-> IF strings(list) = <<>> THEN "unable" ELSE "none",
          pc |-> "done"]

\* auto_run() up to the first get_status
AutoBegin ==
    /\ pc = "start"
    /\ auto_mode
    /\ LET a == auto_loop(_word_count_list)
       IN  /\ client_word' = a.word
           /\ printed' = IF a.printed = NoPrint THEN printed ELSE a.printed
           /\ said' = a.said
           /\ pc' = a.pc
    /\ UNCHANGED <<storeVars, _display_limit, auto_mode, input, client_status,
                   rounds, parserVars>>

\* auto_run() from get_status to the next get_status or to its return
AutoStatus ==
    /\ pc = "status"
    /\ auto_mode
    /\ rounds < MaxRounds
    /\ rounds' = rounds + 1
    /\ \E status \in AllStatus(_word_size) :
        /\ client_status' = status
        /\ IF found(status)
           THEN /\ said' = "congratulations"
                /\ pc' = "done"
                /\ UNCHANGED <<storeVars, client_word, printed>>
           ELSE /\ CallStore(client_word, status, TRUE)
                /\ UNCHANGED <<supplied, twin, twin_ret, history, out, _words>>
                /\ LET a == auto_loop(_word_count_list')
                   IN  /\ client_word' = IF a.pc = "done" THEN client_word
                                         ELSE a.word
                       /\ printed' = IF a.printed = NoPrint THEN printed
                                     ELSE a.printed
                       /\ said' = a.said
                       /\ pc' = a.pc
    /\ UNCHANGED <<_display_limit, auto_mode, input, parserVars>>

\* WordleClient(word_size, display_limit, auto_mode) before run()/auto_run():
\* dictionaries with and without words of the word size
InitClient ==
    \E n \in 1..MaxClientSize, limit \in 0..MaxDisplayLimit, mode \in BOOLEAN :
        \E words \in Supplied(<<"a", "b">>, n) \cup {Sampled(n)}
                     \cup {<< <<WordAt(LetterSeq, n + 1, 0), 9>> >>} :
            /\ InitData(n, n, words, <<>>, FALSE)
            /\ _display_limit = limit
            /\ auto_mode = mode
            /\ pc = "start"
            /\ input = <<>>
            /\ client_word = <<>>
            /\ client_status = <<>>
            /\ printed = NoPrint
            /\ said = "none"
            /\ rounds = 0
            /\ NoParser

NextClient ==
    \/ RunBegin
    \/ GetWord
    \/ GetAnswer
    \/ GetWordAgain
    \/ GetStatus
    \/ AutoBegin
    \/ AutoStatus

SpecClient == InitClient /\ [][NextClient]_vars

----------------------------------------------------------------------------
(* ArgParser: parse and retrieve.  A string is a sequence of one-character  *)
(* strings; std::string::find results are 1-based here, 0 standing for npos *)

\* the separator of argument and value
SEP == "="

\* std::isalnum(c) || c == '_' on the characters of the arguments used here
IsWordChar(c) == c \notin {"-", SEP}

\* the members of an Arg, one configured argument
Arg(shortOpt, longOpt, hasDefault, defaultValue, mandatory) ==
    [shortOpt |-> shortOpt, longOpt |-> longOpt, hasDefault |-> hasDefault,
     defaultValue |-> defaultValue, mandatory |-> mandatory]

\* Arg::toString
toString(arg) == <<"-", arg.shortOpt, ", --", arg.longOpt>>

isHelpString(arg) ==
    arg = <<"-", "h">> \/ arg = <<"-", "-", "h", "e", "l", "p">>

\* arg.find(c)
FindChar(arg, c) ==
    IF \E k \in 1..Len(arg) : arg[k] = c
    THEN CHOOSE k \in 1..Len(arg) :
             arg[k] = c /\ \A j \in 1..(k - 1) : arg[j] # c
    ELSE 0

\* arg.find_first_not_of('-')
FirstNotDash(arg) ==
    IF \E k \in 1..Len(arg) : arg[k] # "-"
    THEN CHOOSE k \in 1..Len(arg) :
             arg[k] # "-" /\ \A j \in 1..(k - 1) : arg[j] = "-"
    ELSE 0

\* ParsedArg::parse_arg
parse_arg(arg) ==
    LET pos == FirstNotDash(arg)
    IN  IF pos = 1 \/ pos = 0
        THEN [argType |-> "Invalid", parsedArg |-> arg]
        ELSE IF \E k \in pos..Len(arg) : ~IsWordChar(arg[k])
        THEN [argType |-> "Invalid", parsedArg |-> arg]
        ELSE IF pos = 2
        THEN [argType |-> "Short", parsedArg |-> SubSeq(arg, pos, Len(arg))]
        ELSE IF pos = 3
        THEN [argType |-> "Long", parsedArg |-> SubSeq(arg, pos, Len(arg))]
        ELSE [argType |-> "Invalid", parsedArg |-> arg]

\* an exception of the parser
ParserError(msg) == [type |-> "runtime_error", msg |-> msg]

\* an exception that leaves a noexcept function: std::terminate
Terminated(msg) == [type |-> "terminate", msg |-> msg]

\* Arg::init_args: the options of the two strings or the exception
init_args(shortArg, longArg) ==
    LET shortParsedArg == parse_arg(shortArg)
        longParsedArg == parse_arg(longArg)
    IN  IF shortParsedArg.argType # "Short"
        THEN [err |-> ParserError(<<"Invalid short option: ", shortArg>>),
              shortOpt |-> <<>>, longOpt |-> <<>>]
        ELSE IF longParsedArg.argType # "Long"
        THEN [err |-> ParserError(<<"Invalid long option: ", longArg>>),
              shortOpt |-> <<>>, longOpt |-> <<>>]
        ELSE IF Len(shortParsedArg.parsedArg) >= Len(longParsedArg.parsedArg)
        THEN [err |-> ParserError(<<"Short option [", shortArg,
                          "] must be shorter than Long option [", longArg, "]">>),
              shortOpt |-> <<>>, longOpt |-> <<>>]
        ELSE [err |-> NoError, shortOpt |-> shortParsedArg.parsedArg,
              longOpt |-> longParsedArg.parsedArg]

\* the constructors of Arg: the argument or the exception of init_args
NewArg(shortArg, longArg, hasDefault, defaultValue, mandatory) ==
    LET opts == init_args(shortArg, longArg)
    IN  [err |-> opts.err,
         arg |-> Arg(opts.shortOpt, opts.longOpt, hasDefault, defaultValue,
                     mandatory)]

\* init(): the help argument every parser holds
helpArg ==
    NewArg(<<"-", "h">>, <<"-", "-", "h", "e", "l", "p">>, FALSE, <<>>,
           FALSE).arg

\* std::to_string of a std::size_t
RECURSIVE to_string(_)
to_string(n) ==
    LET digit == <<"0", "1", "2", "3", "4", "5", "6", "7", "8", "9">>[(n % 10) + 1]
    IN  IF n < 10 THEN <<digit>> ELSE to_string(n \div 10) \o <<digit>>

\* addArgumentImpl: the two emplace calls of its condition, the second one
\* only when the first one inserted, then the exception or the new argument
addArgumentImpl(arg) ==
    LET shortIsNew == arg.shortOpt \notin argKeys
        withShort == argKeys \cup {arg.shortOpt}
        longIsNew == arg.longOpt \notin withShort
    IN  IF ~shortIsNew
        THEN [argKeys |-> argKeys, configuredArgs |-> configuredArgs,
              err |-> ParserError(<<"Duplicate arguments: ", toString(arg)>>)]
        ELSE IF ~longIsNew
        THEN [argKeys |-> withShort, configuredArgs |-> configuredArgs,
              err |-> ParserError(<<"Duplicate arguments: ", toString(arg)>>)]
        ELSE [argKeys |-> withShort \cup {arg.longOpt},
              configuredArgs |-> Append(configuredArgs, arg),
              err |-> NoError]

\* argValueParser: the argument before the separator and the value after it
argValueParser(arg) ==
    LET pos == FindChar(arg, SEP)
    IN  IF pos = 1 \/ pos = 0
        THEN [err |-> ParserError(<<"Separator [", SEP,
                          "] is supposed to separate arg and value in: ", arg>>),
              first |-> parse_arg(<<>>), second |-> <<>>]
        ELSE [err |-> NoError,
              first |-> parse_arg(SubSeq(arg, 1, pos - 1)),
              second |-> SubSeq(arg, pos + 1, Len(arg))]

\* Arg::match(const ParsedArg &); it throws on an Invalid argument
match(arg, parsed) ==
    IF parsed.argType = "Short" THEN parsed.parsedArg = arg.shortOpt
    ELSE parsed.argType = "Long" /\ parsed.parsedArg = arg.longOpt

\* Arg::match(const std::string &)
match_string(arg, str) == str = arg.shortOpt \/ str = arg.longOpt

\* findArg: the index of the first configured argument that matches, 0 for
\* std::nullopt; it is noexcept, and match throws on an Invalid argument
findArg(parsed) ==
    IF parsed.argType = "Invalid" /\ configuredArgs # <<>>
    THEN [err |-> Terminated(<<"Attempting to match with Invalid argument">>),
          index |-> 0]
    ELSE [err |-> NoError,
          index |-> IF \E k \in 1..Len(configuredArgs) :
                           match(configuredArgs[k], parsed)
                    THEN CHOOSE k \in 1..Len(configuredArgs) :
                           /\ match(configuredArgs[k], parsed)
                           /\ \A j \in 1..(k - 1) :
                                  ~match(configuredArgs[j], parsed)
                    ELSE 0]

\* parsedArgs holds a value for the argument
Holds(parsed_args, arg) ==
    \E e \in parsed_args :
        e.key.shortOpt = arg.shortOpt /\ e.key.longOpt = arg.longOpt

\* the second loop of parse: the defaults of the arguments not passed
WithDefaults(parsed_args) ==
    parsed_args \cup
        {[key |-> configuredArgs[k], value |-> configuredArgs[k].defaultValue] :
            k \in {j \in 1..Len(configuredArgs) :
                     /\ configuredArgs[j].hasDefault
                     /\ ~Holds(parsed_args, configuredArgs[j])}}

\* checkMandatoryArgs: the exception for the first mandatory argument that
\* has no value
checkMandatoryArgs(parsed_args) ==
    LET missing == {k \in 1..Len(configuredArgs) :
                      /\ configuredArgs[k].mandatory
                      /\ ~Holds(parsed_args, configuredArgs[k])}
    IN  IF missing = {} THEN NoError
        ELSE LET k == CHOOSE m \in missing : \A j \in missing : m <= j
             IN  ParserError(<<"Couldn't find [", toString(configuredArgs[k]),
                               "] mandatory argument in passed arguments">>)

\* the first loop of parse from argv[i] on (i is 0-based)
RECURSIVE parse_loop(_, _, _)
parse_loop(argv, i, parsed_args) ==
    IF i >= Len(argv)
    THEN [parsedArgs |-> WithDefaults(parsed_args),
          err |-> checkMandatoryArgs(WithDefaults(parsed_args))]
    ELSE LET argValPair == argValueParser(argv[i + 1])
             argOpt == findArg(argValPair.first)
         IN  IF argValPair.err # NoError
             THEN [parsedArgs |-> parsed_args, err |-> argValPair.err]
             ELSE IF argOpt.err # NoError
             THEN [parsedArgs |-> parsed_args, err |-> argOpt.err]
             ELSE IF argOpt.index = 0
             THEN [parsedArgs |-> parsed_args,
                   err |-> ParserError(<<"Unknown argument: ",
                                         argValPair.first.parsedArg>>)]
             ELSE IF Holds(parsed_args, configuredArgs[argOpt.index])
             THEN [parsedArgs |-> parsed_args,
                   err |-> ParserError(<<"Received multiple values for: ",
                                 toString(configuredArgs[argOpt.index])>>)]
             ELSE parse_loop(argv, i + 1,
                     parsed_args \cup {[key |-> configuredArgs[argOpt.index],
                                        value |-> argValPair.second]})

\* parse(argc, argv) with argc = Len(argv): the members it leaves and the
\* exception it throws
parse(argv) ==
    IF Len(argv) < 1
    THEN [parsedArgs |-> parsedArgs, appPath |-> appPath,
          isOnlyHelpString |-> isOnlyHelpString,
          err |-> ParserError(<<"Invalid command line arguments">>)]
    ELSE IF Len(argv) = 2 /\ isHelpString(argv[2])
    THEN [parsedArgs |-> parsedArgs, appPath |-> argv[1],
          isOnlyHelpString |-> TRUE, err |-> NoError]
    ELSE LET r == parse_loop(argv, 1, parsedArgs)
         IN  [parsedArgs |-> r.parsedArgs, appPath |-> argv[1],
              isOnlyHelpString |-> isOnlyHelpString, err |-> r.err]

needHelp == isOnlyHelpString

\* validateRetrieval: the exception it throws
validateRetrieval ==
    IF appPath = <<>>
    THEN ParserError(<<"parse() must be called with command line arguments before retrieving values">>)
    ELSE IF needHelp
    THEN ParserError(<<"Application was run with '-h' or '--help', retrieving values is not allowed. Should call @helpMsg and return">>)
    ELSE NoError

\* the value of a string of digits
RECURSIVE Number(_)
Number(digits) ==
    IF digits = <<>> THEN 0
    ELSE 10 * Number(SubSeq(digits, 1, Len(digits) - 1))
         + (CHOOSE d \in 0..9 :
               <<"0", "1", "2", "3", "4", "5", "6", "7", "8", "9">>[d + 1]
                   = digits[Len(digits)])

\* from_string<T> for T = std::string and T = std::size_t
from_string(T, arg) ==
    IF T = "string" THEN [has |-> TRUE, str |-> arg, num |-> 0]
    ELSE IF arg # <<>> /\ \A k \in 1..Len(arg) :
                 arg[k] \in {"0", "1", "2", "3", "4", "5", "6", "7", "8", "9"}
    THEN [has |-> TRUE, str |-> <<>>, num |-> Number(arg)]
    ELSE nullopt

\* retrieve<T>(arg): the optional returned or the exception thrown
retrieve(T, arg) ==
    IF validateRetrieval # NoError
    THEN [err |-> validateRetrieval, opt |-> nullopt]
    ELSE IF \E e \in parsedArgs : match_string(e.key, arg)
    THEN [err |-> NoError,
          opt |-> from_string(T, (CHOOSE e \in parsedArgs :
                                     match_string(e.key, arg)).value)]
    ELSE [err |-> NoError, opt |-> nullopt]

\* the command lines: with and without application path, up to MaxArgs
\* arguments of these
ArgStrings ==
    { <<"-", "h">>, <<"-", "-", "h", "e", "l", "p">>,
      <<"-", "w", "=", "7">>,
      <<"-", "-", "l", "o", "g", "f", "i", "l", "e", "=", "a">>,
      <<"-", "x", "=", "1">>, <<"w", "=", "5">> }

CommandLines ==
    {<<>>} \cup
    UNION {{<<path>> \o rest : rest \in [1..n -> ArgStrings]} :
              path \in {<<>>, <<"a", "p", "p">>}, n \in 0..MaxArgs}

\* argParser.parse(argc, argv)
Parse ==
    /\ parser_err.type # "terminate"
    /\ \E argv \in CommandLines :
        LET r == parse(argv)
        IN  /\ parsedArgs' = r.parsedArgs
            /\ appPath' = r.appPath
            /\ isOnlyHelpString' = r.isOnlyHelpString
            /\ parser_err' = r.err
            /\ parse_called' = TRUE
    /\ UNCHANGED <<storeVars, clientVars, configuredArgs, argKeys, retrieved>>

\* argParser.retrieve<T>(arg)
Retrieve ==
    /\ parser_err.type # "terminate"
    /\ \E T \in {"string", "size_t"},
          arg \in {<<"w">>, <<"l", "o", "g", "f", "i", "l", "e">>} :
        LET r == retrieve(T, arg)
        IN  retrieved' =
                IF r.err # NoError
                THEN [type |-> "throw", msg |-> r.err.msg, opt |-> nullopt,
                      parsed |-> parse_called]
                ELSE [type |-> "returned", msg |-> <<>>, opt |-> r.opt,
                      parsed |-> parse_called]
    /\ UNCHANGED <<storeVars, clientVars, configuredArgs, argKeys, parsedArgs,
                   appPath, isOnlyHelpString, parse_called, parser_err>>

\* the pairs of short and long argument handed to addArgument: a new pair,
\* a long argument that is taken, a short argument without '-'
ArgNames ==
    { << <<"-", "l">>, <<"-", "-", "l", "o", "g", "f", "i", "l", "e">> >>,
      << <<"-", "l">>, <<"-", "-", "h", "e", "l", "p">> >>,
      << <<"w">>, <<"-", "-", "w", "i", "d", "t", "h">> >> }

\* the pairs handed to addArgumentWithDefault: a new pair, a long argument
\* with one '-', a short argument as long as the long one
ArgNamesWithDefault ==
    { << <<"-", "w">>, <<"-", "-", "w", "i", "d", "t", "h">> >>,
      << <<"-", "w">>, <<"-", "w", "i", "d", "t", "h">> >>,
      << <<"-", "l", "o", "g">>, <<"-", "-", "l", "o", "g">> >> }

\* addArgument / addArgumentWithDefault on a constructed argument: an
\* exception of the constructor leaves the parser as it is
added(made) ==
    IF made.err # NoError
    THEN [argKeys |-> argKeys, configuredArgs |-> configuredArgs,
          err |-> made.err]
    ELSE addArgumentImpl(made.arg)

\* argParser.addArgument(shortOpt, longOpt, helpMsg, isMandatory)
AddArgument ==
    /\ parser_err.type # "terminate"
    /\ \E names \in ArgNames, isMandatory \in BOOLEAN :
        LET r == added(NewArg(names[1], names[2], FALSE, <<>>, isMandatory))
        IN  /\ argKeys' = r.argKeys
            /\ configuredArgs' = r.configuredArgs
            /\ parser_err' = r.err
    /\ UNCHANGED <<storeVars, clientVars, parsedArgs, appPath,
                   isOnlyHelpString, parse_called, retrieved>>

\* argParser.addArgumentWithDefault<std::size_t>(shortOpt, longOpt, helpMsg,
\* defaultValue)
AddArgumentWithDefault ==
    /\ parser_err.type # "terminate"
    /\ \E names \in ArgNamesWithDefault, defaultValue \in {5} :
        LET r == added(NewArg(names[1], names[2], TRUE,
                              to_string(defaultValue), FALSE))
        IN  /\ argKeys' = r.argKeys
            /\ configuredArgs' = r.configuredArgs
            /\ parser_err' = r.err
    /\ UNCHANGED <<storeVars, clientVars, parsedArgs, appPath,
                   isOnlyHelpString, parse_called, retrieved>>

\* a parser after its construction
InitParser ==
    /\ \E words \in {Sampled(1)} : InitData(1, 1, words, <<>>, FALSE)
    /\ NoClient
    /\ configuredArgs = <<helpArg>>
    /\ argKeys = {helpArg.shortOpt, helpArg.longOpt}
    /\ parsedArgs = {}
    /\ appPath = <<>>
    /\ isOnlyHelpString = FALSE
    /\ parse_called = FALSE
    /\ parser_err = NoError
    /\ retrieved = NoRetrieve

NextParser == AddArgument \/ AddArgumentWithDefault \/ Parse \/ Retrieve

SpecParser == InitParser /\ [][NextParser]_vars

----------------------------------------------------------------------------
(* Vocabulary of the properties                                             *)

\* the candidate words, in stored order
Candidates == strings(_word_count_list)

\* the candidate words the constructor left: those the first call found
CandidatesBefore == strings(dict)

\* some call of update has returned a count
Accepted == progress # "fresh"

\* the last call was observed and returned a count
ObservedCall == ret.type = "ok"

\* how often the entry e stands in list
Occurrences(list, e) == Cardinality({k \in 1..Len(list) : list[k] = e})

\* the counts of the entries do not increase along the list
FrequencyOrder(list) ==
    \A k \in 1..Len(list) : k < Len(list) => list[k][2] >= list[k + 1][2]

\* the status holds a character that is none of 'b', 'y', 'g'
Foreign(status) ==
    \E k \in 1..Len(status) : status[k] \notin {"b", "y", "g"}

\* the last call was observed and ended with an exception
ObservedFailure == ret.type \notin {"none", "ok"}

\* the positions (1-based) of the letter c in the last guess carrying mark m
Marks(c, m) ==
    {k \in 1..Len(last_str) : last_str[k] = c /\ last_status[k] = m}

InSeq(x, seq) == \E k \in 1..Len(seq) : seq[k] = x

RECURSIVE IsSubSeq(_, _)
IsSubSeq(s, t) ==
    IF s = <<>> THEN TRUE
    ELSE IF t = <<>> THEN FALSE
    ELSE IF Head(s) = Head(t) THEN IsSubSeq(Tail(s), Tail(t))
    ELSE IsSubSeq(s, Tail(t))

\* the word w obeys the marks of the last guess at the positions of letter d,
\* and holds d as often as the game allows: at least once per 'y' or 'g'
\* mark, and exactly that often when d also has a 'b' mark
LetterConsistent(w, d) ==
    LET k == Cardinality(Marks(d, "y")) + Cardinality(Marks(d, "g"))
    IN  /\ \A i \in Marks(d, "g") : w[i] = d
        /\ \A i \in Marks(d, "y") \cup Marks(d, "b") : w[i] # d
        /\ Count(w, d) >= k
        /\ Marks(d, "b") # {} => Count(w, d) = k

----------------------------------------------------------------------------
(* C1: in a game whose hidden word is in the dictionary and whose every     *)
(* status is the feedback of the game, the hidden word is still a candidate *)
(* after every update, so the candidates never run out.                     *)
C1_TargetStays ==
    genuine => InSeq(target, Candidates)

(* C2: after an accepted update every remaining candidate has the guessed   *)
(* letter at every position marked 'g'.                                     *)
C2_CorrectKept ==
    ObservedCall =>
        \A i \in 1.._word_size : last_status[i] = "g" =>
            \A k \in 1..Len(Candidates) : Candidates[k][i] = last_str[i]

\* a 'g' mark on a letter that also has a 'b' mark, candidates were removed
\* and some are left
C2_Witness ==
    /\ ObservedCall
    /\ \E c \in Letters : Marks(c, "g") # {} /\ Marks(c, "b") # {}
    /\ Candidates # <<>>
    /\ Len(Candidates) < Len(CandidatesBefore)

(* C3: after an accepted update every remaining candidate contains the      *)
(* guessed letter of every position marked 'y', whatever the other marks of *)
(* that letter are and wherever they stand.                                 *)
C3_PresentContained ==
    ObservedCall =>
        \A i \in 1.._word_size : last_status[i] = "y" =>
            \A k \in 1..Len(Candidates) : Find(Candidates[k], last_str[i])

(* C4: after an accepted update no remaining candidate has the guessed      *)
(* letter at a position marked 'y'.                                         *)
C4_PresentMoved ==
    ObservedCall =>
        \A i \in 1.._word_size : last_status[i] = "y" =>
            \A k \in 1..Len(Candidates) : Candidates[k][i] # last_str[i]

\* a 'y' mark reached only through the 'b' branch of an earlier position of
\* the same letter, with candidates removed and some left
C4_Witness ==
    /\ ObservedCall
    /\ \E c \in Letters :
          \E i \in Marks(c, "b"), j \in Marks(c, "y") : i < j
    /\ Candidates # <<>>
    /\ \E k \in 1..Len(CandidatesBefore) :
          \E j \in 1.._word_size :
              last_status[j] = "y" /\ CandidatesBefore[k][j] = last_str[j]

(* C5: after an accepted update no remaining candidate has the guessed      *)
(* letter at a position marked 'b', also at the second and later 'b'        *)
(* positions of a letter that has 'y' or 'g' marks in the same guess.       *)
C5_AbsentMoved ==
    ObservedCall =>
        \A i \in 1.._word_size : last_status[i] = "b" =>
            \A k \in 1..Len(Candidates) : Candidates[k][i] # last_str[i]

(* C6: a letter whose every occurrence in an accepted guess is marked 'b'   *)
(* occurs in no remaining candidate, after that update and after every      *)
(* later update of the session.                                             *)
C6_AbsentLetterGone ==
    \A c \in banned :
        \A k \in 1..Len(Candidates) : ~Find(Candidates[k], c)

\* a letter was ruled out by an earlier update, and a later accepted update
\* has left candidates
C6_Witness ==
    /\ Accepted
    /\ banned_earlier
    /\ Candidates # <<>>

(* C7: after an accepted update in which the letter c has a 'b' mark, y     *)
(* 'y' marks and g 'g' marks: if y > 0 no remaining candidate holds c y + 1 *)
(* times or more, and if g > 0 none holds c g + 1 times or more.            *)
C7_CountCapped ==
    ObservedCall =>
        \A c \in Letters : Marks(c, "b") # {} =>
            LET y == Cardinality(Marks(c, "y"))
                g == Cardinality(Marks(c, "g"))
            IN  \A k \in 1..Len(Candidates) :
                    /\ y > 0 => Count(Candidates[k], c) < y + 1
                    /\ g > 0 => Count(Candidates[k], c) < g + 1

\* a capped letter, a candidate over the cap before the call, and candidates
\* left after it
C7_Witness ==
    /\ ObservedCall
    /\ Candidates # <<>>
    /\ \E c \in Letters :
          /\ \E i \in Marks(c, "y"), j \in Marks(c, "b") : i < j
          /\ \E k \in 1..Len(CandidatesBefore) :
                /\ Count(CandidatesBefore[k], c) = Cardinality(Marks(c, "y")) + 1
                /\ \A d \in Letters \ {c} :
                      LetterConsistent(CandidatesBefore[k], d)
                /\ \A i \in 1.._word_size :
                      IF last_status[i] = "g"
                      THEN CandidatesBefore[k][i] = last_str[i]
                      ELSE CandidatesBefore[k][i] # last_str[i]

(* C8: a 'b' mark on a letter c that also has k >= 1 marks 'y' or 'g' caps  *)
(* the count of c and does not rule c out: a candidate that holds c exactly *)
(* k times and obeys the marks of the feedback is not removed.  The other   *)
(* letters of the guess are taken to be consistent with their marks too.    *)
C8_CappedNotEliminated ==
    ObservedCall =>
        \A c \in Letters :
            (/\ Marks(c, "b") # {}
             /\ Marks(c, "y") \cup Marks(c, "g") # {}) =>
                \A k \in 1..Len(CandidatesBefore) :
                    (\A d \in Letters : LetterConsistent(CandidatesBefore[k], d))
                        => InSeq(CandidatesBefore[k], Candidates)

(* C9: every call of update leaves a sub-sequence of the candidates it      *)
(* found: no word is added or re-added, and the count does not grow.        *)
C9_Monotonic ==
    [][/\ IsSubSeq(_word_count_list', _word_count_list)
       /\ size(_word_count_list') <= size(_word_count_list)]_vars

\* after a second or later accepted call some candidates are gone and some
\* are left
C9_Witness ==
    /\ progress = "again"
    /\ size(_word_count_list) > 0
    /\ size(_word_count_list) < size(dict)

(* C10: the candidates left by a sequence of accepted updates are exactly   *)
(* the dictionary entries that pass every pair of the sequence when update  *)
(* runs on the entry alone, whatever the other candidates are.              *)
C10_Pointwise ==
    _word_count_list = survivors

\* after a second or later accepted call, with several candidates gone and
\* several left
C10_Witness ==
    /\ progress = "again"
    /\ size(_word_count_list) + 1 < size(dict)
    /\ size(_word_count_list) > 1

----------------------------------------------------------------------------
(* C11: a call of update whose guess or status does not have exactly        *)
(* _word_size characters ends with std::invalid_argument and the message    *)
(* "Invalid number of characters in [<guess>], and/or [<status>], they must *)
(* contain exactly [<_word_size>] characters", also when the status holds   *)
(* characters outside "byg".                                                *)
C11_LengthMessage ==
    (/\ ret.type # "none"
     /\ (Len(last_str) # _word_size \/ Len(last_status) # _word_size)) =>
        /\ ret.type = "invalid_argument"
        /\ ret.msg = <<"Invalid number of characters in [", last_str,
                       "], and/or [", last_status,
                       "], they must contain exactly [", _word_size,
                       "] characters">>

\* a call with a guess of the wrong length and a status of foreign letters
C11_Witness ==
    /\ ret.type = "invalid_argument"
    /\ Len(last_str) # _word_size
    /\ last_status # <<>>
    /\ \A k \in 1..Len(last_status) : last_status[k] = "x"

(* C12: a call of update whose guess and status both have _word_size        *)
(* characters and whose status holds a character outside "byg" ends with    *)
(* std::invalid_argument and the message "Invalid status characters in      *)
(* [<status>], status characters must be from: [byg]".                      *)
C12_StatusMessage ==
    (/\ ret.type # "none"
     /\ Len(last_str) = _word_size
     /\ Len(last_status) = _word_size
     /\ Foreign(last_status)) =>
        /\ ret.type = "invalid_argument"
        /\ ret.msg = <<"Invalid status characters in [", last_status,
                       "], status characters must be from: [", "byg", "]">>

\* a status of the right length that mixes allowed and foreign letters
C12_Witness ==
    /\ ret.type = "invalid_argument"
    /\ Len(last_str) = _word_size
    /\ Len(last_status) = _word_size
    /\ last_status[1] = "g"
    /\ Foreign(last_status)

(* C13: a call of update that ends with an exception leaves the candidate   *)
(* list, words and order, as the call found it.                             *)
C13_FailedUpdateAtomic ==
    ObservedFailure => _word_count_list = dict

(* C14: on a store built through the public constructors, a call of update  *)
(* that passes the length and the character check never ends with the       *)
(* index error of validate_index.                                           *)
C14_NoIndexError ==
    (/\ Len(last_str) = _word_size
     /\ Len(last_status) = _word_size
     /\ ~Foreign(last_status)) => ret.type # "runtime_error"

(* C15: on the candidates [abc, bcd, pqr, abf, abr] with word size 3,       *)
(* update("abf", "ggb") leaves [abc, abr] in that order and a following     *)
(* update("abc", "ggb") leaves [abr].                                       *)
C15_Scenario ==
    CandidatesBefore = strings(ScenarioWords) =>
        /\ history = << << <<"a", "b", "f">>, <<"g", "g", "b">> >> >>
               => Candidates = << <<"a", "b", "c">>, <<"a", "b", "r">> >>
        /\ history = << << <<"a", "b", "f">>, <<"g", "g", "b">> >>,
                        << <<"a", "b", "c">>, <<"g", "g", "b">> >> >>
               => Candidates = << <<"a", "b", "r">> >>

\* both calls of the scenario have returned, the second one the count 1
C15_Witness ==
    /\ CandidatesBefore = strings(ScenarioWords)
    /\ history = << << <<"a", "b", "f">>, <<"g", "g", "b">> >>,
                    << <<"a", "b", "c">>, <<"g", "g", "b">> >> >>
    /\ ret.type = "ok"
    /\ ret.size = 1

\* update("app", "gbb") was the only counted call on the store
AppCall == history = << << <<"a", "p", "p">>, <<"g", "b", "b">> >> >>

(* C16 as claimed: on a store of 3-letter words update("app", "gbb")        *)
(* removes every candidate with two or more 'p' and keeps the candidates    *)
(* (with 'a' at index 0) that hold exactly one 'p', at index 1.             *)
C16_DoubleLetterKept ==
    AppCall =>
        /\ \A k \in 1..Len(Candidates) : Count(Candidates[k], "p") < 2
        /\ \A k \in 1..Len(CandidatesBefore) :
              (/\ CandidatesBefore[k][1] = "a"
               /\ CandidatesBefore[k][2] = "p"
               /\ Count(CandidatesBefore[k], "p") = 1)
                  => InSeq(CandidatesBefore[k], Candidates)

(* C16 amended: on a store of 3-letter words update("app", "gbb") removes   *)
(* every candidate that holds a 'p' anywhere, those with exactly one 'p' at *)
(* index 1 included, and leaves exactly the candidates with 'a' at index 0  *)
(* and no 'p', in their order.                                              *)
C16_AbsentTwice ==
    AppCall =>
        Candidates = SelectSeq(CandidatesBefore,
                        LAMBDA w : w[1] = "a" /\ Count(w, "p") = 0)

\* the store held words with two 'p', words with one 'p' at index 1 and at
\* index 2 behind a leading 'a', and the call has left candidates
C16_Witness ==
    /\ AppCall
    /\ InSeq(<<"a", "p", "p">>, CandidatesBefore)
    /\ InSeq(<<"a", "p", "x">>, CandidatesBefore)
    /\ InSeq(<<"a", "x", "p">>, CandidatesBefore)
    /\ Candidates # <<>>

(* C17: the constructor keeps exactly the supplied entries whose word has   *)
(* the word size, in the supplied order and as often as supplied; entries   *)
(* of another length are dropped, and nothing that was not supplied appears.*)
C17_Construction ==
    /\ IsSubSeq(dict, supplied)
    /\ \A k \in 1..Len(dict) : Len(dict[k][1]) = each_word_size
    /\ \A j \in 1..Len(supplied) :
          Len(supplied[j][1]) = each_word_size
              => Occurrences(dict, supplied[j]) = Occurrences(supplied, supplied[j])

\* the supplied list held a word twice and a word of another length
C17_Witness ==
    /\ _word_count_list = dict
    /\ \E j \in 1..Len(supplied) : Occurrences(dict, supplied[j]) = 2
    /\ \E j \in 1..Len(supplied) : Len(supplied[j][1]) # each_word_size
    /\ Len(dict) < Len(supplied)

(* C18: get_n_words(n) returns the first min(n, size()) candidates in       *)
(* stored order, and get_n_words, size and get_words leave the candidate    *)
(* list as it is.                                                           *)
C18_FirstWords ==
    [][/\ out'.op \in {"get_n_words", "size", "get_words"}
           => _word_count_list' = _word_count_list
       /\ out'.op = "get_n_words" =>
             LET m == IF out'.n < Len(_word_count_list)
                      THEN out'.n ELSE Len(_word_count_list)
             IN  /\ Len(out'.words) = m
                 /\ \A k \in 1..m : out'.words[k] = _word_count_list[k][1]]_vars

\* more words were asked for than the filtered store holds
C18_Witness ==
    /\ out.op = "get_n_words"
    /\ out.n > Len(_word_count_list)
    /\ out.words # <<>>
    /\ Len(_word_count_list) < Len(dict)

(* C19: the filters keep the entries that are left in their order: the list *)
(* is a sub-sequence of the constructor's list, and when that list was in   *)
(* non-increasing frequency order the list still is.                        *)
C19_OrderKept ==
    /\ IsSubSeq(_word_count_list, dict)
    /\ FrequencyOrder(dict) => FrequencyOrder(_word_count_list)

\* entries were removed from between entries that are left
C19_Witness ==
    /\ FrequencyOrder(dict)
    /\ Len(_word_count_list) > 1
    /\ _word_count_list[1] = dict[1]
    /\ _word_count_list[2] # dict[2]
    /\ _word_count_list[Len(_word_count_list)] = dict[Len(dict)]

(* C20: two stores built from the same words in the same order with other   *)
(* counts hold the same words in the same order after the same calls of     *)
(* update, and every call ends alike on both: the same count or the same    *)
(* exception.                                                               *)
C20_RankIgnored ==
    /\ strings(twin) = strings(_word_count_list)
    /\ twin_ret[1] = twin_ret[2]

\* after a second or later counted call candidates are left, and each has
\* another count in the other store
C20_Witness ==
    /\ progress = "again"
    /\ Len(_word_count_list) > 1
    /\ Len(_word_count_list) < Len(dict)
    /\ \A k \in 1..Len(_word_count_list) :
          _word_count_list[k][2] # twin[k][2]

----------------------------------------------------------------------------
(* C24: a call update(w, status) whose status is all 'g' leaves exactly the *)
(* candidates equal to w, in their order, and removes every other           *)
(* candidate; none is left if w was not a candidate.                        *)

\* every character of the status is 'g'
AllCorrect(status) == \A k \in 1..Len(status) : status[k] = "g"

\* the step is the observed call of update, and it returned a count
ObservedStep == ret.type = "none" /\ ret'.type = "ok"

C24_OnlyTheGuess ==
    [][(ObservedStep /\ AllCorrect(last_status'))
       => /\ strings(_word_count_list') =
                 SelectSeq(strings(_word_count_list), LAMBDA w : w = last_str')
          /\ (~InSeq(last_str', strings(_word_count_list))
                 => _word_count_list' = <<>>)]_vars

\* an all-'g' call on a store that held the guess twice among other words:
\* the two are left
C24_Witness ==
    /\ ObservedCall
    /\ Len(history) = 1
    /\ AllCorrect(last_status)
    /\ Candidates = <<last_str, last_str>>
    /\ Len(dict) > 2

\* an all-'g' call with a guess of the right length that the dictionary does
\* not hold: nothing is left
C24_NoneLeft ==
    /\ ObservedCall
    /\ Len(history) = 1
    /\ AllCorrect(last_status)
    /\ ~InSeq(last_str, CandidatesBefore)
    /\ Candidates = <<>>

----------------------------------------------------------------------------
(* C25: after a valid call update(guess, status) whose status is not all    *)
(* 'g', the guess is not a candidate: a guess that was answered as wrong is *)
(* not suggested again.                                                     *)
C25_WrongGuessGone ==
    (ObservedCall /\ ~AllCorrect(last_status)) => ~InSeq(last_str, Candidates)

\* the guess was a candidate of the dictionary, the status has a 'g', a 'y'
\* and a 'b', and other candidates are left
C25_Witness ==
    /\ ObservedCall
    /\ InSeq(last_str, CandidatesBefore)
    /\ \A m \in {"g", "y", "b"} : \E k \in 1..Len(last_status) : last_status[k] = m
    /\ Candidates # <<>>
    /\ ~InSeq(last_str, Candidates)

----------------------------------------------------------------------------
(* C26: update is idempotent: the same valid call given again leaves the    *)
(* candidate sequence as the first call left it and returns the same count. *)

\* the step gives the logged call once more
RepeatStep == Len(history) = 1 /\ Len(history') = 2

C26_Idempotent ==
    [][RepeatStep => /\ _word_count_list' = _word_count_list
                     /\ ret'.size = ret.size
                     /\ ret'.size = size(_word_count_list')]_vars

\* a call that removed some candidates and left others was given twice
C26_Witness ==
    /\ ObservedCall
    /\ Len(history) = 2
    /\ history[1] = history[2]
    /\ Candidates # <<>>
    /\ Len(Candidates) < Len(dict)
    /\ ~AllCorrect(last_status)

----------------------------------------------------------------------------
(* C29: the plain word-list store and the frequency-ranked store built from *)
(* the same words in the same order with the same word size >= 1 hold the   *)
(* same words in the same order after every sequence of valid updates, and  *)
(* every update returns the same count on both.                             *)
C29_SameWords ==
    /\ _words = strings(_word_count_list)
    /\ twin_ret[1] = twin_ret[2]
    /\ twin_ret[1].type = "ok" => twin_ret[2].size = Len(_words)

\* after two or more updates the two stores still hold several words, fewer
\* than at the start
C29_Witness ==
    /\ progress = "again"
    /\ twin_ret[2].type = "ok"
    /\ Len(_words) > 1
    /\ Len(_words) < Len(dict)
    /\ _words = strings(_word_count_list)

----------------------------------------------------------------------------
(* C21: in manual and in automatic mode the client declares the word found  *)
(* exactly when the status entered last is all 'g'; it decides so without   *)
(* calling update: no call of update carries an all-'g' status, and the     *)
(* step that declares the word found leaves the candidates as they were.    *)
C21_SolvedByFeedback ==
    [][/\ (said' = "congratulations")
            = (client_status' # <<>> /\ AllCorrect(client_status'))
       /\ (said' = "congratulations" /\ said # "congratulations")
            => (_word_count_list' = _word_count_list /\ ret' = ret)
       /\ ret'.type # "none" => ~AllCorrect(last_status')]_vars

\* a manual game: one update left several candidates, then an all-'g'
\* status for a word that is none of them
C21_Witness ==
    /\ ~auto_mode
    /\ said = "congratulations"
    /\ pc = "done"
    /\ progress = "once"
    /\ Len(Candidates) > 1
    /\ ~InSeq(client_word, Candidates)
    /\ AllCorrect(client_status)

\* an automatic game solved in its second round
C21_AutoSolved ==
    /\ auto_mode
    /\ said = "congratulations"
    /\ rounds = 2
    /\ Candidates # <<>>

----------------------------------------------------------------------------
(* C22: in both modes, once an update has left no candidate the client has  *)
(* said that no suitable word is left and has returned: that step prints no *)
(* further suggestion, and no step follows it.                              *)

\* an update has returned and the store is empty
NoneLeft == ret.type = "ok" /\ _word_count_list = <<>>

C22_UnableAndOver ==
    [][/\ NoneLeft' => (pc' = "done" /\ said' = "unable" /\ printed' = printed)
       /\ ~NoneLeft]_vars

\* an automatic game whose third update removed the last candidates
C22_Witness ==
    /\ auto_mode
    /\ NoneLeft
    /\ rounds = 3
    /\ said = "unable"
    /\ pc = "done"

\* a manual game whose update removed every candidate
C22_ManualUnable ==
    /\ ~auto_mode
    /\ NoneLeft
    /\ said = "unable"
    /\ pc = "done"

----------------------------------------------------------------------------
(* C23: in automatic mode the word suggested in a round is the first        *)
(* candidate of the current sequence, hence a candidate; it is the word     *)
(* printed, and when the dictionary came in descending frequency order no   *)
(* candidate has a higher frequency.                                        *)
C23_FirstSuggested ==
    (auto_mode /\ pc = "status")
        => /\ Candidates # <<>>
           /\ client_word = Candidates[1]
           /\ InSeq(client_word, Candidates)
           /\ printed.words = <<client_word>>
           /\ FrequencyOrder(dict)
                => \A k \in 1..Len(_word_count_list) :
                       _word_count_list[1][2] >= _word_count_list[k][2]

\* the second suggestion of a game on a dictionary in frequency order: the
\* first word of the dictionary is gone and several candidates are left
C23_Witness ==
    /\ auto_mode
    /\ pc = "status"
    /\ rounds = 1
    /\ FrequencyOrder(dict)
    /\ Len(Candidates) > 1
    /\ client_word = Candidates[1]
    /\ client_word # CandidatesBefore[1]
    /\ printed.kind = "try"

----------------------------------------------------------------------------
(* C27: in automatic mode a round whose status is not all 'g' leaves fewer  *)
(* candidates than it found, so a game on a dictionary of N words takes at  *)
(* most N statuses: after the N-th the game is over.                        *)
C27_RoundsBounded ==
    [][/\ (auto_mode /\ rounds' = rounds + 1 /\ ~AllCorrect(client_status'))
            => Len(_word_count_list') < Len(_word_count_list)
       /\ rounds' <= Len(dict)
       /\ rounds' = Len(dict) => pc' \in {"done", "terminated"}]_vars

\* a game on three words that took as many rounds as it had words
C27_Witness ==
    /\ auto_mode
    /\ Len(dict) >= 3
    /\ rounds = Len(dict)
    /\ pc = "done"
    /\ said = "unable"

----------------------------------------------------------------------------
(* C28: the assertion of print_update never fails: whenever the client      *)
(* prints an update, in manual or automatic mode, for every word size,      *)
(* display limit and dictionary, the list it is about to show holds a word. *)
C28_AssertionHolds == printed # AssertFailed /\ pc # "terminated"

----------------------------------------------------------------------------
(* C30: retrieve throws if and only if it is called before parse() has been *)
(* called; in every other state it returns an optional value and does not   *)
(* throw.                                                                   *)
C30_ThrowsIffUnparsed ==
    retrieved.type # "none"
        => ((retrieved.type = "throw") = ~retrieved.parsed)

====
